---- MODULE Spec2Model ----
(***************************************************************************)
(* A model of flask_restless/serialization/serializers.py: the default     *)
(* JSON API serializer (DefaultSerializer._dump, serialize,                *)
(* serialize_many), create_relationship and the resource identifier        *)
(* serializer (DefaultRelationshipSerializer._dump).                       *)
(*                                                                         *)
(* Python values are tagged records: [int |-> n], [str |-> s],             *)
(* [none |-> TRUE], [ref |-> o] (an object, named by its key in Obj),      *)
(* [call |-> v] (a zero-argument callable returning v), [date |-> <<y,m,d>>]*)
(* and [td |-> <<days, seconds, microseconds>>].  A dict is a function     *)
(* whose domain is its key set; a list is a sequence.  A call either       *)
(* returns or raises: [kind |-> "return", value |-> v] or                  *)
(* [kind |-> "raise", exc |-> <exception class>, ...].                     *)
(***************************************************************************)
EXTENDS Integers, Sequences, FiniteSets, TLC

VARIABLES
    self,        \* the serializer object the call is made on
    instances,   \* the instances given to the call (one for serialize)
    only,        \* the `only` argument of the call
    pc,          \* "call" | "loop" | "done"
    i,           \* serialize_many: number of instances iterated so far
    resources,   \* serialize_many: local list `resources`
    failed,      \* serialize_many: local list `failed`
    call,        \* which operation was invoked, with its extra arguments
    outcome,     \* what the call returned or raised
    heap,        \* threads: the objects several calls can reach
    threads      \* threads: each thread's calls, results and call stack

vars == <<self, instances, only, pc, i, resources, failed, call, outcome,
          heap, threads>>

(***************************************************************************)
(* Bounds of the model.                                                    *)
(***************************************************************************)
\* longest list of instances given to serialize_many
MaxBatch == 3
\* largest number of names in an `only` / `exclude` collection
MaxSel == 2

(***************************************************************************)
(* Python values.                                                          *)
(***************************************************************************)
None == [none |-> TRUE]
PyInt(n) == [int |-> n]
PyStr(s) == [str |-> s]
Ref(o) == [ref |-> o]
Callable(v) == [call |-> v]
Date(y, m, d) == [date |-> <<y, m, d>>]
Timedelta(days, seconds, microseconds) == [td |-> <<days, seconds, microseconds>>]

\* an optional argument: None, or a given collection of names
Absent == [given |-> FALSE]
Given(names) == [given |-> TRUE, names |-> names]

Return(v) == [kind |-> "return", value |-> v]
Raise(exc) == [kind |-> "raise", exc |-> exc]
\* SerializationException(instance): carries the instance that failed
SerializationException(instance, message) ==
    [kind |-> "raise", exc |-> "SerializationException", instance |-> instance,
     message |-> message]
\* MultipleExceptions(exceptions): carries the list of collected exceptions
MultipleExceptions(exceptions) ==
    [kind |-> "raise", exc |-> "MultipleExceptions", errors |-> exceptions]
Raised(o) == o.kind = "raise"

Range(s) == {s[k] : k \in DOMAIN s}

\* the first raising outcome of a sequence of outcomes (there is one)
FirstRaised(outs) ==
    outs[CHOOSE k \in DOMAIN outs :
            Raised(outs[k]) /\ \A j \in 1..(k - 1) : ~Raised(outs[j])]
AnyRaised(outs) == \E k \in DOMAIN outs : Raised(outs[k])

(***************************************************************************)
(* str() of the values used as primary keys, date.isoformat() and          *)
(* timedelta.total_seconds().                                              *)
(***************************************************************************)
Digits == <<"0", "1", "2", "3", "4", "5", "6", "7", "8", "9">>

RECURSIVE NatStr(_)
NatStr(n) == IF n < 10 THEN Digits[n + 1]
             ELSE NatStr(n \div 10) \o Digits[(n % 10) + 1]

IntStr(n) == IF n < 0 THEN "-" \o NatStr(0 - n) ELSE NatStr(n)

Pad(n, width) == IF width = 4
                 THEN (IF n < 10 THEN "000" ELSE IF n < 100 THEN "00"
                       ELSE IF n < 1000 THEN "0" ELSE "") \o NatStr(n)
                 ELSE (IF n < 10 THEN "0" ELSE "") \o NatStr(n)

\* str(v) for an int, a str or None
str(v) == IF "int" \in DOMAIN v THEN IntStr(v.int)
          ELSE IF "str" \in DOMAIN v THEN v.str
          ELSE "None"

isoformat(v) == Pad(v.date[1], 4) \o "-" \o Pad(v.date[2], 2) \o "-" \o Pad(v.date[3], 2)

\* seconds as <<whole seconds, microseconds>>: the fraction is kept
total_seconds(v) ==
    [float |-> <<v.td[1] * 24 * 3600 + v.td[2], v.td[3]>>]

(***************************************************************************)
(* Module constants.                                                       *)
(***************************************************************************)
COLUMN_BLACKLIST == {"_sa_polymorphic_on"}

JSONAPI_VERSION == "1.0"

\* request.url_root of the request context the call runs in
url_root == "http://localhost/"

\* JsonApiDocument(): the skeleton document; a dict built anew on every call
JsonApiDocument ==
    [data |-> None,
     jsonapi |-> [version |-> JSONAPI_VERSION],
     links |-> <<>>,
     meta |-> <<>>,
     included |-> <<>>]

\* DefaultSerializer.__init__: the names of `only` are unioned with type and
\* id; `exclude` is kept as given.  The names are given as strings here, for
\* which get_column_name returns its argument.
DefaultSerializer(only_, exclude_, additional_attributes_) ==
    [cls |-> "DefaultSerializer",
     default_fields |-> IF only_.given
                        THEN Given(only_.names \cup {"type", "id"})
                        ELSE Absent,
     exclude |-> exclude_,
     additional_attributes |-> additional_attributes_]

\* tests/helpers.py: a DefaultSerializer whose serialize always raises
raise_s_exception ==
    [DefaultSerializer(Absent, Absent, Absent) EXCEPT !.cls = "raise_s_exception"]

singleton_serializer == DefaultSerializer(Absent, Absent, Absent)

(***************************************************************************)
(* The collaborators: what SQLAlchemy's inspection says about each model   *)
(* class (Model), what the API manager has registered for it (Api), and    *)
(* the objects of the session (Obj).                                       *)
(***************************************************************************)
NoRelations == [relations |-> <<>>, related |-> <<>>, tomany |-> {}]

Mapped(columns, hybrids, fks, pk_name, rel) ==
    [mapped |-> TRUE, column_attrs |-> columns, hybrid |-> hybrids,
     foreign_keys |-> fks, pk |-> pk_name, relations |-> rel.relations,
     related |-> rel.related, tomany |-> rel.tomany]

Model ==
    [Author  |-> Mapped(<<"id", "name">>, <<>>, {}, "id",
                        [relations |-> <<"articles">>,
                         related |-> [articles |-> "Article"],
                         tomany |-> {"articles"}]),
     Person  |-> Mapped(<<"person_id", "name">>, <<>>, {}, "person_id",
                        [relations |-> <<"articles">>,
                         related |-> [articles |-> "Article"],
                         tomany |-> {"articles"}]),
     Member  |-> Mapped(<<"id", "person_id", "name">>, <<>>, {}, "person_id",
                        NoRelations),
     Article |-> Mapped(<<"id", "title", "author_id", "_sa_polymorphic_on">>,
                        <<"__secret">>, {"author_id"}, "id",
                        [relations |-> <<"author", "comments">>,
                         related |-> [author |-> "Author", comments |-> "Comment"],
                         tomany |-> {"comments"}]),
     Comment |-> Mapped(<<"id", "body">>, <<>>, {}, "id", NoRelations),
     Draft   |-> Mapped(<<"id", "name">>, <<>>, {}, "id", NoRelations),
     Memo    |-> Mapped(<<"id", "name">>, <<>>, {}, "id", NoRelations),
     Tag     |-> Mapped(<<"id", "name">>, <<>>, {}, "id", NoRelations),
     Note    |-> Mapped(<<"id", "created", "elapsed">>, <<"owner">>, {}, "id",
                        NoRelations),
     Plain   |-> [Mapped(<<>>, <<>>, {}, "id", NoRelations) EXCEPT !.mapped = FALSE],
     Bare    |-> [Mapped(<<>>, <<>>, {}, "id", NoRelations) EXCEPT !.mapped = FALSE],
     Node    |-> Mapped(<<"id">>, <<"peer">>, {}, "id", NoRelations),
     Badge   |-> Mapped(<<"id", "name">>, <<>>, {}, "id", NoRelations)]

Registered(serializer_, name, get) ==
    [serializer |-> [given |-> TRUE, obj |-> serializer_],
     collection |-> [given |-> TRUE, name |-> name],
     routed |-> TRUE, readable |-> get]

Api ==
    [Author  |-> Registered(singleton_serializer, "authors", TRUE),
     Person  |-> Registered(singleton_serializer, "people", TRUE),
     Member  |-> Registered(singleton_serializer, "members", FALSE),
     Article |-> Registered(DefaultSerializer(Absent, Given({"author"}), Absent),
                            "articles", TRUE),
     Note    |-> Registered(singleton_serializer, "notes", TRUE),
     Plain   |-> Registered(singleton_serializer, "plains", TRUE),
     Tag     |-> Registered(raise_s_exception, "tags", TRUE),
     \* a serializer is registered, no collection name is
     Draft   |-> [Registered(singleton_serializer, "", FALSE)
                    EXCEPT !.collection = Absent, !.routed = FALSE],
     \* a collection name is registered, no serializer is
     Memo    |-> [Registered(singleton_serializer, "memos", TRUE)
                    EXCEPT !.serializer = Absent],
     \* no API was created for the model
     Comment |-> [serializer |-> Absent, collection |-> Absent,
                  routed |-> FALSE, readable |-> FALSE],
     Bare    |-> [serializer |-> Absent, collection |-> Absent,
                  routed |-> FALSE, readable |-> FALSE],
     Node    |-> Registered(singleton_serializer, "nodes", TRUE),
     \* the registered serializer adds the attribute `holder` to the columns
     Badge   |-> Registered(DefaultSerializer(Absent, Absent, Given(<<"holder">>)),
                            "badges", TRUE)]

Instance(model, attrs, rels) == [model |-> model, attrs |-> attrs, rels |-> rels]

ArticleAttrs(id_, author_id) ==
    [id |-> PyInt(id_), title |-> PyStr("T"), author_id |-> author_id,
     _sa_polymorphic_on |-> PyStr("article"), __secret |-> PyStr("s")]

NoteAttrs(id_, owner) ==
    [id |-> PyInt(id_), created |-> Date(2016, 1, 2),
     elapsed |-> Timedelta(1, 30, 500000), owner |-> Callable(Ref(owner))]

Obj ==
    [ada   |-> Instance("Author",
                 [id |-> PyInt(1), name |-> PyStr("Ada"), extra |-> Callable(PyInt(3))],
                 [articles |-> <<"a1", "a2">>]),
     bob   |-> Instance("Author", [id |-> PyInt(2), name |-> PyStr("Bob")],
                 [articles |-> <<>>]),
     p42   |-> Instance("Person", [person_id |-> PyInt(42), name |-> PyStr("Ada")],
                 [articles |-> <<"a1", "a2">>]),
     m1    |-> Instance("Member",
                 [id |-> PyInt(5), person_id |-> PyInt(9), name |-> PyStr("Mem")], <<>>),
     a1    |-> Instance("Article", ArticleAttrs(1, PyInt(1)),
                 [author |-> Ref("ada"), comments |-> <<>>]),
     a2    |-> Instance("Article", ArticleAttrs(2, None),
                 [author |-> None, comments |-> <<>>]),
     a3    |-> Instance("Article", ArticleAttrs(3, None),
                 [author |-> None, comments |-> <<"c1">>]),
     c1    |-> Instance("Comment", [id |-> PyInt(7), body |-> PyStr("hi")], <<>>),
     d1    |-> Instance("Draft", [id |-> PyInt(4), name |-> PyStr("D")], <<>>),
     memo1 |-> Instance("Memo", [id |-> PyInt(6), name |-> PyStr("M")], <<>>),
     t1    |-> Instance("Tag", [id |-> PyInt(10), name |-> PyStr("tag")], <<>>),
     x1    |-> Instance("Plain", [id |-> PyInt(8)], <<>>),
     x2    |-> Instance("Bare", <<>>, <<>>),
     n1    |-> Instance("Note", NoteAttrs(11, "bob"), <<>>),
     n2    |-> Instance("Note", NoteAttrs(12, "c1"), <<>>),
     n3    |-> Instance("Note", NoteAttrs(13, "memo1"), <<>>),
     n4    |-> Instance("Note", NoteAttrs(14, "t1"), <<>>),
     \* a cycle through plain attributes: g1.peer is g2, g2.peer is g1
     g1    |-> Instance("Node", [id |-> PyInt(21), peer |-> Ref("g2")], <<>>),
     g2    |-> Instance("Node", [id |-> PyInt(22), peer |-> Ref("g1")], <<>>),
     \* g4.peer is an Author
     g4    |-> Instance("Node", [id |-> PyInt(24), peer |-> Ref("bob")], <<>>),
     \* b1.holder is a Comment, a model with no serializer and no collection
     \* name; n5.owner is b1
     b1    |-> Instance("Badge",
                 [id |-> PyInt(31), name |-> PyStr("B"), holder |-> Ref("c1")],
                 <<>>),
     n5    |-> Instance("Note", NoteAttrs(15, "b1"), <<>>)]

(***************************************************************************)
(* flask_restless.helpers, as the serializers use them.                    *)
(***************************************************************************)
get_model(instance) == Obj[instance].model

is_mapped_class(model) == Model[model].mapped

\* getattr(instance, name): a column value, a related value, or AttributeError
hasattr(instance, name) ==
    name \in (DOMAIN Obj[instance].attrs) \cup (DOMAIN Obj[instance].rels)

getattr(instance, name) ==
    IF name \in DOMAIN Obj[instance].attrs
    THEN Obj[instance].attrs[name]
    ELSE Obj[instance].rels[name]

foreign_keys(model) == Model[model].foreign_keys

get_relations(model) == Model[model].relations

get_related_model(model, relation) == Model[model].related[relation]

is_like_list(instance, relation) == relation \in Model[get_model(instance)].tomany

primary_key_for(model) == Model[model].pk

primary_key_value(instance) == getattr(instance, primary_key_for(get_model(instance)))

\* serializer_for(model): the registered serializer, or ValueError
serializer_for(model) ==
    IF Api[model].serializer.given
    THEN Return(Api[model].serializer.obj)
    ELSE Raise("ValueError")

\* collection_name(model): the registered resource type name, or ValueError
collection_name(model) ==
    IF Api[model].collection.given
    THEN Return(Api[model].collection.name)
    ELSE Raise("ValueError")

\* url_for(model): ValueError when no API manager knows the model
url_for_model(model) ==
    IF Api[model].routed THEN Return(<<Api[model].collection.name>>)
    ELSE Raise("ValueError")

\* url_for(model, pk_value, relation, relationship=...): the path, by segments
url_for_relation(model, pk_value, relation, relationship) ==
    <<Api[model].collection.name, str(pk_value)>>
        \o (IF relationship THEN <<"relationships">> ELSE <<>>)
        \o <<relation>>

\* url_for(model, instance_id, _method='GET'): BuildError when the model has
\* no GET endpoint
url_for_get(model, instance_id) ==
    IF Api[model].readable
    THEN Return(<<Api[model].collection.name, str(instance_id)>>)
    ELSE Raise("BuildError")

urljoin(root, path) == <<root>> \o path

(***************************************************************************)
(* Control flow of a call that may raise.                                  *)
(***************************************************************************)
\* try: out / except: Except(the exception) / else: Then(the value)
Try(out, Then(_), Except(_)) ==
    IF Raised(out) THEN Except(out) ELSE Then(out.value)

\* the exception of `out` propagates, its value goes on to Then
Bind(out, Then(_)) == IF Raised(out) THEN out ELSE Then(out.value)

\* list(map(f, xs)) for f that may raise: the first exception propagates
Collect(outs) ==
    IF AnyRaised(outs) THEN FirstRaised(outs)
    ELSE Return([k \in DOMAIN outs |-> outs[k].value])

IndexOf(seq, x) == CHOOSE k \in DOMAIN seq : seq[k] = x

(***************************************************************************)
(* DefaultRelationshipSerializer._dump and create_relationship.            *)
(***************************************************************************)
\* DefaultRelationshipSerializer._dump(instance, _type): an unresolved
\* collection name leaves the method as the helper's ValueError
DefaultRelationshipSerializer_dump(instance, _type) ==
    Bind(IF _type.given THEN Return(_type.name)
         ELSE collection_name(get_model(instance)),
         LAMBDA name :
            Return([id |-> str(primary_key_value(instance)), type |-> name]))

simple_relationship_dump(instance) ==
    DefaultRelationshipSerializer_dump(instance, Absent)

\* the related link given without asking url_for for the related model
relationship_links_unchecked(model, instance, relation) ==
    LET pk_value == primary_key_value(instance)
    IN  [self |-> url_for_relation(model, pk_value, relation, TRUE),
         related |-> url_for_relation(model, pk_value, relation, FALSE)]

\* create_relationship, the links: self always, related when url_for knows
\* the related model
relationship_links(model, instance, relation) ==
    LET pk_value == primary_key_value(instance)
        self_link == url_for_relation(model, pk_value, relation, TRUE)
        related_link == url_for_relation(model, pk_value, relation, FALSE)
    IN  IF Raised(url_for_model(get_related_model(model, relation)))
        THEN [self |-> self_link]
        ELSE [self |-> self_link, related |-> related_link]

\* a to-one relation taken for null whatever it holds
relationship_data_null_to_one(instance, relation) ==
    LET related_value == getattr(instance, relation)
    IN  IF is_like_list(instance, relation)
        THEN Collect([k \in DOMAIN related_value |->
                        simple_relationship_dump(related_value[k])])
        ELSE Return(None)

\* create_relationship, the data: a list for a to-many relation, one
\* identifier or None for a to-one relation
relationship_data(instance, relation) ==
    LET related_value == getattr(instance, relation)
    IN  IF is_like_list(instance, relation)
        THEN Collect([k \in DOMAIN related_value |->
                        simple_relationship_dump(related_value[k])])
        ELSE IF related_value # None
        THEN simple_relationship_dump(related_value.ref)
        ELSE Return(None)

create_relationship(model, instance, relation) ==
    IF ~Api[model].routed THEN Raise("ValueError")
    ELSE Bind(relationship_data(instance, relation),
              LAMBDA data :
                Return([links |-> relationship_links(model, instance, relation),
                        data |-> data]))

(***************************************************************************)
(* DefaultSerializer._dump and serialize.                                  *)
(***************************************************************************)
startswith(c, prefix) ==
    Len(c) >= Len(prefix) /\ SubSeq(c, 1, Len(prefix)) = prefix

\* the per-call `only` taken as given, without type and id
normalize_only_as_given(only_) == only_

\* _dump: the per-call `only`, unioned with type and id when given
normalize_only(only_) ==
    IF only_.given THEN Given(only_.names \cup {"type", "id"}) ELSE Absent

\* _dump: the columns before any filter
candidate_columns(ser, model) ==
    Model[model].column_attrs \o Model[model].hybrid
        \o (IF ser.additional_attributes.given
            THEN ser.additional_attributes.names ELSE <<>>)

\* the per-call `only` replacing the constructor's instead of narrowing it
selected_columns_override(ser, model, only_) ==
    LET c0 == candidate_columns(ser, model)
        c2 == IF only_.given
              THEN SelectSeq(c0, LAMBDA c : c \in only_.names)
              ELSE IF ser.default_fields.given
              THEN SelectSeq(c0, LAMBDA c : c \in ser.default_fields.names)
              ELSE c0
        c3 == IF ser.exclude.given
              THEN SelectSeq(c2, LAMBDA c : c \notin ser.exclude.names)
              ELSE c2
        c4 == SelectSeq(c3, LAMBDA c : ~startswith(c, "__")
                                       /\ c \notin COLUMN_BLACKLIST)
    IN  SelectSeq(c4, LAMBDA c : c \notin foreign_keys(model))

\* _dump: the columns whose attributes are read, in order; only_ is the
\* normalized per-call `only`
selected_columns(ser, model, only_) ==
    LET c0 == candidate_columns(ser, model)
        c1 == IF ser.default_fields.given
              THEN SelectSeq(c0, LAMBDA c : c \in ser.default_fields.names)
              ELSE c0
        c2 == IF only_.given
              THEN SelectSeq(c1, LAMBDA c : c \in only_.names)
              ELSE c1
        c3 == IF ser.exclude.given
              THEN SelectSeq(c2, LAMBDA c : c \notin ser.exclude.names)
              ELSE c2
        c4 == SelectSeq(c3, LAMBDA c : ~startswith(c, "__")
                                       /\ c \notin COLUMN_BLACKLIST)
    IN  SelectSeq(c4, LAMBDA c : c \notin foreign_keys(model))

\* the per-call `only` replacing the constructor's for the relations
selected_relations_override(ser, model, only_) ==
    LET r0 == get_relations(model)
        r2 == IF only_.given
              THEN SelectSeq(r0, LAMBDA r : r \in only_.names)
              ELSE IF ser.default_fields.given
              THEN SelectSeq(r0, LAMBDA r : r \in ser.default_fields.names)
              ELSE r0
    IN  IF ser.exclude.given
        THEN SelectSeq(r2, LAMBDA r : r \notin ser.exclude.names)
        ELSE r2

\* _dump: the relations that get a relationship object, in order
selected_relations(ser, model, only_) ==
    LET r0 == get_relations(model)
        r1 == IF ser.default_fields.given
              THEN SelectSeq(r0, LAMBDA r : r \in ser.default_fields.names)
              ELSE r0
        r2 == IF only_.given
              THEN SelectSeq(r1, LAMBDA r : r \in only_.names)
              ELSE r1
    IN  IF ser.exclude.given
        THEN SelectSeq(r2, LAMBDA r : r \notin ser.exclude.names)
        ELSE r2

\* _dump: whether the self link is wanted
self_link_selected(ser, only_) ==
    LET is_self_in_default == ~ser.default_fields.given
                              \/ "self" \in ser.default_fields.names
        is_self_in_only == ~only_.given \/ "self" \in only_.names
    IN  is_self_in_default /\ is_self_in_only

\* _dump: a callable is called
called_value(v) == IF "call" \in DOMAIN v THEN v.call ELSE v

\* _dump: a date becomes ISO 8601 text, a timedelta its total seconds
plain_value(v) ==
    IF "date" \in DOMAIN v THEN PyStr(isoformat(v))
    ELSE IF "td" \in DOMAIN v THEN total_seconds(v)
    ELSE v

\* is_mapped_class(type(val)) for an attribute value
is_mapped_value(val) ==
    "ref" \in DOMAIN val /\ is_mapped_class(get_model(val.ref))

RECURSIVE _dump(_, _, _)
RECURSIVE serialize(_, _, _)

\* the ValueError of a model with no registered serializer raised on, with
\* no fallback to simple_serialize
nested_value_no_fallback(val) ==
    Bind(Bind(serializer_for(get_model(val.ref)),
              LAMBDA serializer : serialize(serializer, val.ref, Absent)),
         LAMBDA serialized_val : Return(serialized_val.data))

\* _dump: the value that replaces an attribute value of a mapped class; a
\* ValueError of the registered serializer falls back to simple_serialize
nested_value(val) ==
    Try(Bind(serializer_for(get_model(val.ref)),
             LAMBDA serializer : serialize(serializer, val.ref, Absent)),
        LAMBDA serialized_val : Return(serialized_val.data),
        LAMBDA e :
            IF e.exc = "ValueError"
            THEN Bind(serialize(singleton_serializer, val.ref, Absent),
                      LAMBDA serialized_val : Return(serialized_val.data))
            ELSE e)

\* _dump: the attributes dict after the values are read, called, normalized
\* and the values of mapped classes serialized
dump_attributes(instance, columns) ==
    IF \E k \in DOMAIN columns : ~hasattr(instance, columns[k])
    THEN Raise("AttributeError")
    ELSE LET attributes == [c \in Range(columns) |->
                              plain_value(called_value(getattr(instance, c)))]
             mapped_keys == SelectSeq(columns,
                                LAMBDA c : is_mapped_value(attributes[c]))
         IN  Bind(Collect([k \in DOMAIN mapped_keys |->
                             nested_value(attributes[mapped_keys[k]])]),
                  LAMBDA nested :
                    Return([c \in Range(columns) |->
                              IF is_mapped_value(attributes[c])
                              THEN nested[IndexOf(mapped_keys, c)]
                              ELSE attributes[c]]))

\* _dump: the self link, when wanted and when the model has a GET endpoint
dump_links(ser, instance, only_) ==
    IF self_link_selected(ser, only_)
    THEN Try(url_for_get(get_model(instance), primary_key_value(instance)),
             LAMBDA path : [links |-> [self |-> urljoin(url_root, path)]],
             LAMBDA e : <<>>)
    ELSE <<>>

\* _dump: the relationships member, absent when no relation is selected
dump_relationships(ser, instance, only_) ==
    LET model == get_model(instance)
        relations == selected_relations(ser, model, only_)
    IN  Bind(Collect([k \in DOMAIN relations |->
                        create_relationship(model, instance, relations[k])]),
             LAMBDA built :
                Return(IF relations = <<>> THEN <<>>
                       ELSE [relationships |->
                                [r \in Range(relations) |->
                                    built[IndexOf(relations, r)]]]))

\* the attributes member set also when no attribute is left
dump_resource_keeps_empty(ser, instance, only_, attributes_) ==
    LET model == get_model(instance)
        attributes == [c \in (DOMAIN attributes_) \ {"id"} |-> attributes_[c]]
        pk_name == primary_key_for(model)
    IN  IF "id" \notin DOMAIN attributes_ THEN Raise("KeyError")
        ELSE Bind(collection_name(model),
            LAMBDA type_ :
                IF pk_name # "id" /\ pk_name \notin DOMAIN attributes
                THEN Raise("KeyError")
                ELSE Bind(dump_relationships(ser, instance, only_),
                    LAMBDA relationships :
                        Return([id |-> str(IF pk_name # "id"
                                           THEN attributes[pk_name]
                                           ELSE attributes_["id"]),
                                type |-> type_,
                                attributes |-> attributes]
                               @@ dump_links(ser, instance, only_)
                               @@ relationships)))

\* _dump, from the attributes dict on: id and type, attributes, links, the
\* primary key as id, relationships
dump_resource(ser, instance, only_, attributes_) ==
    LET model == get_model(instance)
        attributes == [c \in (DOMAIN attributes_) \ {"id"} |-> attributes_[c]]
        pk_name == primary_key_for(model)
    IN  IF "id" \notin DOMAIN attributes_ THEN Raise("KeyError")
        ELSE Bind(collection_name(model),
            LAMBDA type_ :
                IF pk_name # "id" /\ pk_name \notin DOMAIN attributes
                THEN Raise("KeyError")
                ELSE Bind(dump_relationships(ser, instance, only_),
                    LAMBDA relationships :
                        Return([id |-> str(IF pk_name # "id"
                                           THEN attributes[pk_name]
                                           ELSE attributes_["id"]),
                                type |-> type_]
                               @@ (IF DOMAIN attributes # {}
                                   THEN [attributes |-> attributes] ELSE <<>>)
                               @@ dump_links(ser, instance, only_)
                               @@ relationships)))

\* the attributes read before the model is inspected
_dump_reads_first(ser, instance, only_arg) ==
    LET only_ == normalize_only(only_arg)
        model == get_model(instance)
    IN  Bind(dump_attributes(instance, selected_columns(ser, model, only_)),
             LAMBDA attributes :
                IF ~is_mapped_class(model)
                THEN SerializationException(instance,
                                            "failed to get columns for model")
                ELSE dump_resource(ser, instance, only_, attributes))

_dump(ser, instance, only_arg) ==
    LET only_ == normalize_only(only_arg)
        model == get_model(instance)
    IN  IF ~is_mapped_class(model)
        THEN SerializationException(instance, "failed to get columns for model")
        ELSE Bind(dump_attributes(instance, selected_columns(ser, model, only_)),
                  LAMBDA attributes :
                    dump_resource(ser, instance, only_, attributes))

\* serialize: the resource object as the data of a fresh document;
\* raise_s_exception overrides it to raise
serialize(ser, instance, only_arg) ==
    IF ser.cls = "raise_s_exception"
    THEN SerializationException(instance, "None")
    ELSE Bind(_dump(ser, instance, only_arg),
              LAMBDA resource :
                Return([JsonApiDocument EXCEPT !.data = resource]))

(***************************************************************************)
(* DefaultSerializer.serialize_many: one iteration of its loop.            *)
(***************************************************************************)
\* the entry of some type name given to every item, whatever its type
only_get_any(only_map, _type) ==
    IF ~only_map.given THEN Raise("AttributeError")
    ELSE IF DOMAIN only_map.map # {}
    THEN Return(Given(only_map.map[CHOOSE t \in DOMAIN only_map.map : TRUE]))
    ELSE Return(Absent)

\* only.get(_type): `only` must be a dict; the default None has no get
only_get(only_map, _type) ==
    IF ~only_map.given THEN Raise("AttributeError")
    ELSE IF _type \in DOMAIN only_map.map
    THEN Return(Given(only_map.map[_type]))
    ELSE Return(Absent)

Failed(exception) == [to |-> "failed", exception |-> exception]
Escaped(exception) == [to |-> "raise", exception |-> exception]

\* the collection name looked up before the serializer
loop_body_name_first(instance, only_map) ==
    LET model == get_model(instance)
    IN  Try(collection_name(model),
            LAMBDA _type :
              Try(serializer_for(model),
                  LAMBDA serializer :
                    Try(only_get(only_map, _type),
                        LAMBDA _only :
                          Try(serialize(serializer, instance, _only),
                              LAMBDA serialized :
                                [to |-> "resources", resource |-> serialized.data],
                              LAMBDA exception :
                                IF exception.exc = "SerializationException"
                                THEN Failed(exception)
                                ELSE Escaped(exception)),
                        LAMBDA e : Escaped(e)),
                  LAMBDA e : Failed(SerializationException(instance,
                                        "Failed to find serializer class"))),
            LAMBDA e : Failed(SerializationException(instance,
                                  "Failed to find collection name")))

\* each instance encoded by the serializer serialize_many was called on
loop_body_with_receiver(instance, only_map) ==
    LET model == get_model(instance)
    IN  Try(serializer_for(model),
            LAMBDA serializer :
              Try(collection_name(model),
                  LAMBDA _type :
                    Try(only_get(only_map, _type),
                        LAMBDA _only :
                          Try(serialize(self, instance, _only),
                              LAMBDA serialized :
                                [to |-> "resources", resource |-> serialized.data],
                              LAMBDA exception :
                                IF exception.exc = "SerializationException"
                                THEN Failed(exception)
                                ELSE Escaped(exception)),
                        LAMBDA e : Escaped(e)),
                  LAMBDA e : Failed(SerializationException(instance,
                                        "Failed to find collection name"))),
            LAMBDA e : Failed(SerializationException(instance,
                                  "Failed to find serializer class")))

\* The body of the loop for one instance: what it appends to `failed` or to
\* `resources`, or the exception that leaves the loop
loop_body(instance, only_map) ==
    LET model == get_model(instance)
    IN  Try(serializer_for(model),
            LAMBDA serializer :
              Try(collection_name(model),
                  LAMBDA _type :
                    Try(only_get(only_map, _type),
                        LAMBDA _only :
                          Try(serialize(serializer, instance, _only),
                              LAMBDA serialized :
                                [to |-> "resources", resource |-> serialized.data],
                              LAMBDA exception :
                                IF exception.exc = "SerializationException"
                                THEN Failed(exception)
                                ELSE Escaped(exception)),
                        LAMBDA e : Escaped(e)),
                  LAMBDA e : Failed(SerializationException(instance,
                                        "Failed to find collection name"))),
            LAMBDA e : Failed(SerializationException(instance,
                                  "Failed to find serializer class")))

(***************************************************************************)
(* The inputs.                                                             *)
(***************************************************************************)
Pending == [kind |-> "pending"]

\* the names an `only` or `exclude` collection is drawn from
FieldNames ==
    {"id", "type", "name", "self", "articles", "person_id", "extra", "owner"}

Selections ==
    {Absent} \cup {Given(S) : S \in {T \in SUBSET FieldNames : Cardinality(T) <= MaxSel}}

AdditionalAttributes == {Absent, Given(<<"extra">>)}

\* constructor arguments: `only` and `exclude` are not both given, as the
\* class asks, but for a few serializers that are given both
Serializers ==
    {DefaultSerializer(o, e, a) :
        o \in Selections, e \in {Absent}, a \in AdditionalAttributes}
    \cup {DefaultSerializer(o, e, a) :
        o \in {Absent}, e \in Selections, a \in AdditionalAttributes}
    \cup {DefaultSerializer(o, e, Given(<<"extra">>)) :
        o \in {Given({"name", "extra"}), Given({"articles"})},
        e \in {Given({"name"}), Given({"extra", "articles"})}}

\* the instances given to serialize
DumpInstances ==
    {"ada", "bob", "p42", "m1", "a1", "a3", "c1", "x1", "x2", "n1", "n2", "n3",
     "n4", "n5", "b1"}

\* the instances given to serialize_many
BatchInstances == {"ada", "a1", "a3", "p42", "c1", "d1", "x1", "t1"}

BatchSerializers ==
    {singleton_serializer, DefaultSerializer(Given({"name"}), Absent, Absent),
     DefaultSerializer(Absent, Given({"name"}), Given(<<"extra">>))}

\* the `only` argument of serialize_many: None, or a dict from type name to
\* field names
OnlyMaps ==
    {Absent,
     [given |-> TRUE, map |-> <<>>],
     [given |-> TRUE, map |-> [authors |-> {"name"}]],
     [given |-> TRUE, map |-> [articles |-> {"title"}, authors |-> {"articles"}]]}

Batches == UNION {[1..n -> BatchInstances] : n \in 0..MaxBatch}

(***************************************************************************)
(* serialize_many, instance by instance.                                   *)
(***************************************************************************)
Init ==
    /\ self \in BatchSerializers
    /\ instances \in Batches
    /\ only \in OnlyMaps
    /\ call = [op |-> "serialize_many"]
    /\ pc = "loop"
    /\ i = 0
    /\ resources = <<>>
    /\ failed = <<>>
    /\ outcome = Pending
    /\ heap = <<>>
    /\ threads = <<>>

InLoop == pc = "loop" /\ call.op = "serialize_many" /\ i < Len(instances)

\* the instance is recorded in `failed`
LoopFailed ==
    /\ InLoop
    /\ LET body == loop_body(instances[i + 1], only)
       IN  /\ body.to = "failed"
           /\ failed' = Append(failed, body.exception)
    /\ i' = i + 1
    /\ UNCHANGED <<heap, threads, self, instances, only, pc, resources, call, outcome>>

\* the instance is serialized and its resource object collected
LoopSerialized ==
    /\ InLoop
    /\ LET body == loop_body(instances[i + 1], only)
       IN  /\ body.to = "resources"
           /\ resources' = Append(resources, body.resource)
    /\ i' = i + 1
    /\ UNCHANGED <<heap, threads, self, instances, only, pc, failed, call, outcome>>

\* an exception that no handler of the loop catches leaves serialize_many
LoopRaised ==
    /\ InLoop
    /\ LET body == loop_body(instances[i + 1], only)
       IN  /\ body.to = "raise"
           /\ outcome' = body.exception
    /\ pc' = "done"
    /\ UNCHANGED <<heap, threads, self, instances, only, i, resources, failed, call>>

\* after the loop: `if failed: raise MultipleExceptions(failed)`
RaiseMultiple ==
    /\ pc = "loop" /\ call.op = "serialize_many" /\ i = Len(instances)
    /\ failed # <<>>
    /\ outcome' = MultipleExceptions(failed)
    /\ pc' = "done"
    /\ UNCHANGED <<heap, threads, self, instances, only, i, resources, failed, call>>

\* after the loop: the document whose data is `resources`
ReturnDocument ==
    /\ pc = "loop" /\ call.op = "serialize_many" /\ i = Len(instances)
    /\ failed = <<>>
    /\ outcome' = Return([JsonApiDocument EXCEPT !.data = resources])
    /\ pc' = "done"
    /\ UNCHANGED <<heap, threads, self, instances, only, i, resources, failed, call>>

Next == LoopFailed \/ LoopSerialized \/ LoopRaised \/ RaiseMultiple \/ ReturnDocument

Spec == Init /\ [][Next]_vars

(***************************************************************************)
(* serialize of one instance, and create_relationship of one relation.     *)
(***************************************************************************)
InitSerialize ==
    /\ self \in Serializers
    /\ instances \in {<<o>> : o \in DumpInstances}
    /\ only \in Selections
    /\ call = [op |-> "serialize"]

InitCreateRelationship ==
    /\ self = singleton_serializer
    /\ instances \in {<<o>> : o \in DOMAIN Obj}
    /\ only = Absent
    /\ call \in {[op |-> "create_relationship", relation |-> r] :
                    r \in Range(get_relations(get_model(instances[1])))}

InitDump ==
    /\ InitSerialize \/ InitCreateRelationship
    /\ pc = "call"
    /\ i = 0
    /\ resources = <<>>
    /\ failed = <<>>
    /\ outcome = Pending
    /\ heap = <<>>
    /\ threads = <<>>

Serialize ==
    /\ pc = "call" /\ call.op = "serialize"
    /\ outcome' = serialize(self, instances[1], only)
    /\ pc' = "done"
    /\ UNCHANGED <<heap, threads, self, instances, only, i, resources, failed, call>>

CreateRelationship ==
    /\ pc = "call" /\ call.op = "create_relationship"
    /\ outcome' = create_relationship(get_model(instances[1]), instances[1],
                                      call.relation)
    /\ pc' = "done"
    /\ UNCHANGED <<heap, threads, self, instances, only, i, resources, failed, call>>

NextDump == Serialize \/ CreateRelationship

SpecDump == InitDump /\ [][NextDump]_vars

(***************************************************************************)
(* Properties.                                                             *)
(***************************************************************************)
TheInstance == instances[1]
TheModel == get_model(TheInstance)

\* the finished call raised the exception class e
Escapes(e) == pc = "done" /\ outcome.kind = "raise" /\ outcome.exc = e
Returns == pc = "done" /\ outcome.kind = "return"

SerializeMany == call.op = "serialize_many"
SerializeOne == call.op = "serialize"
RelationshipOf == call.op = "create_relationship"

\* the resource object a finished serialize returned
TheResource == outcome.value.data

\* the members of a dict, the empty dict when the key is absent
Member(dict, key) == IF key \in DOMAIN dict THEN dict[key] ELSE <<>>

\* serialize_many: the instances of the batch that are not encoded, by the
\* exception that ends their encoding, in input order
FailingItems ==
    SelectSeq(instances, LAMBDA o : loop_body(o, only).to # "resources")

\* the errors of the taxonomy end the encoding of o (no serializer, no
\* collection name, no introspection, an unresolved type name met on the
\* way), or none does
TaxonomyItem(o) ==
    LET body == loop_body(o, only)
    IN  \/ body.to \in {"resources", "failed"}
        \/ body.exception.exc = "ValueError"

\* C1: serialize_many given N instances of which k fail raises, when k >= 1,
\* one MultipleExceptions holding exactly the k failures, each with its own
\* instance, in input order; when k = 0 (N = 0 included) it returns the
\* document whose data is the N resource objects in input order.
C1_AggregateOrDocument ==
    (pc = "done" /\ SerializeMany /\ only.given) =>
        IF FailingItems # <<>>
        THEN /\ Escapes("MultipleExceptions")
             /\ Len(outcome.errors) = Len(FailingItems)
             /\ \A k \in DOMAIN FailingItems :
                    outcome.errors[k].instance = FailingItems[k]
        ELSE /\ Returns
             /\ TheResource = [k \in DOMAIN instances |->
                                 loop_body(instances[k], only).resource]

\* C2: serialize_many never fails fast: when the call is over every instance
\* was iterated, and no error of the taxonomy left the call on its own; each
\* is in the aggregate.
C2_NeverFailsFast ==
    (pc = "done" /\ SerializeMany /\ only.given
        /\ \A k \in DOMAIN instances : TaxonomyItem(instances[k])) =>
        /\ i = Len(instances)
        /\ ~Escapes("ValueError")

\* C3: whatever the constructor's and the call's `only` are, they never
\* filter id out of the columns of a model that has it, and the resource
\* object serialize returns holds id and type.
C3_IdTypePresent ==
    (SerializeOne /\ ~self.exclude.given /\ is_mapped_class(TheModel)) =>
        /\ "id" \in Range(candidate_columns(self, TheModel)) =>
                "id" \in Range(selected_columns(self, TheModel, normalize_only(only)))
        /\ Returns => {"id", "type"} \subseteq DOMAIN TheResource

\* C3 witness: both `only` are given, the call's holds neither id nor type,
\* and the resource object is returned.
C3_Witness ==
    /\ SerializeOne /\ Returns
    /\ self.default_fields.given /\ only.given
    /\ only.names \cap {"id", "type"} = {}
    /\ only.names # {}
    /\ TheResource.id = "1"

\* an instance that is encoded when no field is selected away
EncodesUnfiltered ==
    ~Raised(serialize(DefaultSerializer(Absent, Absent, self.additional_attributes),
                      TheInstance, Absent))

\* C4: no field selection filters id out: an instance with the primary key
\* id that is encoded with no selection is encoded under every constructor
\* only or exclude (not both) and per-call only, and the resource object
\* holds id and type.
C4_NoSelectionDropsId ==
    (pc = "done" /\ SerializeOne /\ EncodesUnfiltered
        /\ primary_key_for(TheModel) = "id"
        /\ ~(self.default_fields.given /\ self.exclude.given)) =>
        /\ Returns
        /\ {"id", "type"} \subseteq DOMAIN TheResource

\* the field names the three filters leave, as sets
ExpectedFields ==
    LET m == Model[TheModel]
        additional == IF self.additional_attributes.given
                      THEN Range(self.additional_attributes.names) ELSE {}
        all == Range(m.column_attrs) \cup Range(m.hybrid) \cup additional
        candidates == {c \in all : /\ c \notin m.foreign_keys
                                   /\ ~startswith(c, "__")
                                   /\ c \notin COLUMN_BLACKLIST}
        by_constructor == IF self.default_fields.given
                          THEN candidates \cap (self.default_fields.names
                                                \cup {"id", "type"})
                          ELSE candidates
        by_call == IF only.given
                   THEN by_constructor \cap (only.names \cup {"id", "type"})
                   ELSE by_constructor
    IN  IF self.exclude.given THEN by_call \ self.exclude.names ELSE by_call

\* C5: the attribute names _dump reads are the candidate fields intersected
\* with the constructor's only and with the call's only (each with id and
\* type) minus the constructor's exclude; the attributes of a returned
\* resource object are these names without id.
C5_FieldSet ==
    (SerializeOne /\ is_mapped_class(TheModel)) =>
        /\ Range(selected_columns(self, TheModel, normalize_only(only)))
              = ExpectedFields
        /\ Returns =>
              DOMAIN Member(TheResource, "attributes") = ExpectedFields \ {"id"}

\* C5 witness: all of additional attributes, constructor only and per-call
\* only are given, and the additional attribute is emitted.
C5_Witness ==
    /\ SerializeOne /\ Returns
    /\ self.default_fields.given /\ only.given
    /\ self.additional_attributes.given
    /\ "extra" \in DOMAIN Member(TheResource, "attributes")
    /\ "name" \notin DOMAIN Member(TheResource, "attributes")

\* C6: an instance whose primary key is not named id, of a model with no id
\* attribute, is encoded under every field selection, with the string form of
\* the primary key as id and the primary key still among the attributes.
C6_PrimaryKeyAsId ==
    (pc = "done" /\ SerializeOne /\ is_mapped_class(TheModel)
        /\ primary_key_for(TheModel) # "id"
        /\ "id" \notin Range(Model[TheModel].column_attrs)) =>
        /\ Returns
        /\ TheResource.id = str(primary_key_value(TheInstance))
        /\ primary_key_for(TheModel) \in DOMAIN Member(TheResource, "attributes")

\* C7: the Person with person_id 42, name Ada and the articles 1 and 2,
\* encoded with no filter, gives id "42", type "people", attributes {name:
\* Ada} and the articles relationship with both links and both identifiers.
C7_PersonScenario ==
    (pc = "done" /\ SerializeOne /\ TheInstance = "p42"
        /\ self = singleton_serializer /\ ~only.given) =>
        /\ Returns
        /\ TheResource.id = "42"
        /\ TheResource.type = "people"
        /\ TheResource.attributes = [name |-> PyStr("Ada")]
        /\ TheResource.relationships.articles =
              [links |-> [self |-> <<"people", "42", "relationships", "articles">>,
                          related |-> <<"people", "42", "articles">>],
               data |-> <<[id |-> "1", type |-> "articles"],
                          [id |-> "2", type |-> "articles"]>>]

\* the resource identifier of an instance
Identifier(o) ==
    [id |-> str(primary_key_value(o)),
     type |-> Api[get_model(o)].collection.name]

\* the data create_relationship is to give for a relation of an instance
ExpectedData(o, relation) ==
    LET related_value == Obj[o].rels[relation]
    IN  IF relation \in Model[get_model(o)].tomany
        THEN [k \in 1..Len(related_value) |-> Identifier(related_value[k])]
        ELSE IF "ref" \in DOMAIN related_value
        THEN Identifier(related_value.ref)
        ELSE None

\* C8: the data of a relationship object is, for a to-many relation, the
\* identifiers of the related instances in the relation's order (the empty
\* list when there are none), and for a to-one relation the identifier of the
\* related instance, or None when there is none.
C8_RelationshipData ==
    /\ (RelationshipOf /\ Returns) =>
            outcome.value.data = ExpectedData(TheInstance, call.relation)
    /\ (SerializeOne /\ Returns) =>
            \A r \in DOMAIN Member(TheResource, "relationships") :
                TheResource.relationships[r].data = ExpectedData(TheInstance, r)

\* C8 witness: a to-many relation with two related instances.
C8_Witness ==
    /\ RelationshipOf /\ Returns
    /\ call.relation \in Model[TheModel].tomany
    /\ Len(Obj[TheInstance].rels[call.relation]) = 2
    /\ Len(outcome.value.data) = 2

\* url_for knows the model the relation leads to
RelatedModelResolves ==
    Api[get_related_model(TheModel, call.relation)].routed

\* the related instances of the relation create_relationship is called for
RelatedInstances ==
    LET related_value == Obj[TheInstance].rels[call.relation]
    IN  IF call.relation \in Model[TheModel].tomany THEN Range(related_value)
        ELSE IF "ref" \in DOMAIN related_value THEN {related_value.ref}
        ELSE {}

\* C9 as claimed: a relationship object always has links.self, has
\* links.related exactly when the related model resolves, and when it does not
\* resolve the object is still returned, without related, and nothing is
\* raised.
C9_RelatedOmittedSilently ==
    (pc = "done" /\ RelationshipOf) =>
        /\ Returns
        /\ "self" \in DOMAIN outcome.value.links
        /\ "related" \in DOMAIN outcome.value.links <=> RelatedModelResolves

\* C9 amended: a returned relationship object has links.self, and
\* links.related exactly when the related model resolves; the call returns
\* exactly when the resource type name of every related instance resolves (so
\* for an empty or null relation whatever the related model), and raises
\* ValueError otherwise.
C9_RelatedLink ==
    (pc = "done" /\ RelationshipOf) =>
        /\ Returns =>
              /\ "self" \in DOMAIN outcome.value.links
              /\ "related" \in DOMAIN outcome.value.links <=> RelatedModelResolves
        /\ Returns <=>
              \A o \in RelatedInstances : Api[get_model(o)].collection.given
        /\ ~Returns => Escapes("ValueError")

\* C9 witness: the related model does not resolve, the relation is empty, and
\* the relationship object is returned with the self link alone.
C9_Witness ==
    /\ RelationshipOf /\ Returns
    /\ ~RelatedModelResolves
    /\ DOMAIN outcome.value.links = {"self"}

\* the field selection excludes the name self, as C10 reads it
SelectionExcludesSelf ==
    \/ self.default_fields.given /\ "self" \notin self.default_fields.names
    \/ only.given /\ "self" \notin only.names
    \/ self.exclude.given /\ "self" \in self.exclude.names

\* C10: a returned resource object has links.self exactly when the model has
\* a read endpoint and the selection does not exclude self: neither only is
\* given without self, and exclude does not name self.
C10_SelfLink ==
    (SerializeOne /\ Returns) =>
        ("links" \in DOMAIN TheResource
            <=> Api[TheModel].readable /\ ~SelectionExcludesSelf)

\* the relation names the three filters leave, as a set
ExpectedRelations ==
    LET all == Range(Model[TheModel].relations)
        byDefault == IF self.default_fields.given
                     THEN all \cap self.default_fields.names ELSE all
        byOnly == IF only.given THEN byDefault \cap only.names ELSE byDefault
    IN  IF self.exclude.given THEN byOnly \ self.exclude.names ELSE byOnly

\* the same serialize call with no per-call only
WithoutOnly == serialize(self, TheInstance, Absent)

\* C11: the relationship names emitted are the model's relations that are in
\* the constructor only (when set) and in the per-call only (when set) and
\* not in exclude (when set); the attributes and relationships emitted under
\* a per-call only are among those emitted with no per-call only.
C11_RelationFilters ==
    (SerializeOne /\ Returns) =>
        /\ DOMAIN Member(TheResource, "relationships") = ExpectedRelations
        /\ ~Raised(WithoutOnly) =>
            /\ DOMAIN Member(TheResource, "attributes")
                  \subseteq DOMAIN Member(WithoutOnly.value.data, "attributes")
            /\ DOMAIN Member(TheResource, "relationships")
                  \subseteq DOMAIN Member(WithoutOnly.value.data, "relationships")

\* C11 witness: the per-call only names a relation and an attribute that the
\* constructor only does not permit, and neither is emitted.
C11_Witness ==
    /\ SerializeOne /\ Returns
    /\ TheInstance = "ada"
    /\ self.default_fields.given /\ only.given
    /\ {"articles", "name"} \subseteq only.names
    /\ {"articles", "name"} \cap self.default_fields.names = {}
    /\ "relationships" \notin DOMAIN TheResource
    /\ "attributes" \notin DOMAIN TheResource
    /\ ~Raised(WithoutOnly)

(***************************************************************************)
(* DefaultRelationshipSerializer.serialize_many, instance by instance.     *)
(***************************************************************************)
singleton_relationship_serializer == [cls |-> "DefaultRelationshipSerializer"]

\* the `_type` argument: None, or the type name the caller knows
ExplicitTypes == {Absent, [given |-> TRUE, name |-> "comments"]}

\* The body of the loop for one instance: the identifier appended to
\* `resource_identifiers`, the SerializationException appended to `failed`,
\* or the exception that leaves the loop
identifier_loop_body(instance, _type) ==
    Try(DefaultRelationshipSerializer_dump(instance, _type),
        LAMBDA resource_identifier :
            [to |-> "resources", resource |-> resource_identifier],
        LAMBDA exception :
            IF exception.exc = "SerializationException"
            THEN Failed(exception)
            ELSE Escaped(exception))

InitIdentifiers ==
    /\ self = singleton_relationship_serializer
    /\ instances \in Batches
    /\ only = Absent
    /\ call \in {[op |-> "relationship_serialize_many", _type |-> t] :
                    t \in ExplicitTypes}
    /\ pc = "loop"
    /\ i = 0
    /\ resources = <<>>
    /\ failed = <<>>
    /\ outcome = Pending
    /\ heap = <<>>
    /\ threads = <<>>

\* one iteration: try _dump, append the identifier; except
\* SerializationException, append the exception
IdentifierLoop ==
    /\ pc = "loop" /\ i < Len(instances)
    /\ LET body == identifier_loop_body(instances[i + 1], call._type)
       IN  /\ body.to # "raise"
           /\ resources' = IF body.to = "resources"
                           THEN Append(resources, body.resource) ELSE resources
           /\ failed' = IF body.to = "failed"
                        THEN Append(failed, body.exception) ELSE failed
    /\ i' = i + 1
    /\ UNCHANGED <<heap, threads, self, instances, only, pc, call, outcome>>

\* one iteration whose exception no handler of the loop catches
IdentifierLoopRaised ==
    /\ pc = "loop" /\ i < Len(instances)
    /\ LET body == identifier_loop_body(instances[i + 1], call._type)
       IN  /\ body.to = "raise"
           /\ outcome' = body.exception
    /\ pc' = "done"
    /\ UNCHANGED <<heap, threads, self, instances, only, i, resources, failed, call>>

\* after the loop: MultipleExceptions when `failed` is not empty, else the
\* document whose data is `resource_identifiers`
IdentifiersDone ==
    /\ pc = "loop" /\ i = Len(instances)
    /\ outcome' = IF failed # <<>> THEN MultipleExceptions(failed)
                  ELSE Return([JsonApiDocument EXCEPT !.data = resources])
    /\ pc' = "done"
    /\ UNCHANGED <<heap, threads, self, instances, only, i, resources, failed, call>>

NextIdentifiers == IdentifierLoop \/ IdentifierLoopRaised \/ IdentifiersDone

SpecIdentifiers == InitIdentifiers /\ [][NextIdentifiers]_vars

\* the instances of the batch whose identifier cannot be produced
FailingIdentifiers ==
    SelectSeq(instances,
              LAMBDA o : Raised(DefaultRelationshipSerializer_dump(o, call._type)))

\* C12: DefaultRelationshipSerializer.serialize_many attempts every instance
\* and, when the identifier of some cannot be produced, ends with one
\* MultipleExceptions holding one failure per such instance in input order;
\* it never ends with the first error.
C12_IdentifiersAggregate ==
    (pc = "done" /\ call.op = "relationship_serialize_many") =>
        /\ i = Len(instances)
        /\ IF FailingIdentifiers # <<>>
           THEN /\ Escapes("MultipleExceptions")
                /\ Len(outcome.errors) = Len(FailingIdentifiers)
                /\ \A k \in DOMAIN FailingIdentifiers :
                       outcome.errors[k].instance = FailingIdentifiers[k]
           ELSE Returns

\* the selected attributes of the instance whose called value is an instance
\* of a mapped class
MappedAttributes ==
    {c \in Range(selected_columns(self, TheModel, normalize_only(only))) :
        /\ hasattr(TheInstance, c)
        /\ is_mapped_value(called_value(getattr(TheInstance, c)))}

NestedInstance(c) == called_value(getattr(TheInstance, c)).ref

\* the document C13 expects for a nested instance: the registered
\* serializer's, or the filter-free default serializer's when none is
\* registered; never the outer serializer's, never under the outer `only`
ExpectedNested(o) ==
    IF Api[get_model(o)].serializer.given
    THEN serialize(Api[get_model(o)].serializer.obj, o, Absent)
    ELSE serialize(DefaultSerializer(Absent, Absent, Absent), o, Absent)

\* C13: an attribute value that is an instance of a mapped class is replaced
\* by the data of the document its registered serializer gives, or of the
\* filter-free default serializer when none is registered; the outer filters
\* do not reach it, no envelope member is kept, and a missing registration
\* alone does not make the outer call raise.
C13_NestedEncoding ==
    (pc = "done" /\ SerializeOne /\ is_mapped_class(TheModel)) =>
        /\ Returns =>
            \A c \in MappedAttributes :
                /\ ~Raised(ExpectedNested(NestedInstance(c)))
                /\ TheResource.attributes[c] =
                        ExpectedNested(NestedInstance(c)).value.data
        /\ (/\ MappedAttributes # {}
            /\ \A c \in MappedAttributes :
                /\ ~Api[get_model(NestedInstance(c))].serializer.given
                /\ ~Raised(ExpectedNested(NestedInstance(c)))
            /\ ~Raised(collection_name(TheModel))
            /\ get_relations(TheModel) = <<>>)
            => ~Escapes("ValueError")

\* what is left of C13 when the registered serializer of every nested
\* instance returns: the nested value is the data of that serializer's
\* document, or of the default serializer's when none is registered
NestedWhenEncoderReturns ==
    (pc = "done" /\ SerializeOne /\ is_mapped_class(TheModel) /\ Returns) =>
        \A c \in MappedAttributes :
            LET o == NestedInstance(c)
            IN  (Api[get_model(o)].serializer.given =>
                    ~Raised(serialize(Api[get_model(o)].serializer.obj, o, Absent)))
                => /\ ~Raised(ExpectedNested(o))
                   /\ TheResource.attributes[c] = ExpectedNested(o).value.data

\* C13 witness: the owner of a Note is a Memo, for which no serializer is
\* registered; the per-call only names owner and not name, and the nested
\* resource object still has its name.
C13_Witness ==
    /\ SerializeOne /\ Returns
    /\ TheInstance = "n3"
    /\ only.given /\ "owner" \in only.names /\ "name" \notin only.names
    /\ TheResource.attributes.owner =
            [id |-> "6", type |-> "memos",
             attributes |-> [name |-> PyStr("M")],
             links |-> [self |-> <<url_root, "memos", "6">>]]

\* C14: serialize of an instance whose model cannot be inspected raises a
\* SerializationException about that instance, whatever reading the
\* attributes or asking for the collection name, the URLs or the relations
\* would have done, and returns no document.
C14_FailFast ==
    (pc = "done" /\ SerializeOne /\ ~is_mapped_class(TheModel)) =>
        /\ Escapes("SerializationException")
        /\ outcome.instance = TheInstance
        /\ outcome.message = "failed to get columns for model"

\* C14 witness: the model cannot be inspected, has no collection name, and
\* the instance lacks the additional attribute the serializer would read.
C14_Witness ==
    /\ SerializeOne /\ Escapes("SerializationException")
    /\ TheInstance = "x2"
    /\ self.additional_attributes.given
    /\ ~hasattr(TheInstance, "extra")
    /\ Raised(collection_name(TheModel))
    /\ outcome.instance = "x2"

\* C15: a returned resource object has no empty mapping: attributes is
\* present exactly when an attribute other than id is selected, relationships
\* exactly when a relation is selected, and links holds the self link when
\* present; with constructor only {name} and per-call only {name, id} the
\* attributes are name alone and there is no relationships member.
C15_NoEmptyMapping ==
    (SerializeOne /\ Returns) =>
        /\ "attributes" \in DOMAIN TheResource <=> ExpectedFields \ {"id"} # {}
        /\ "relationships" \in DOMAIN TheResource <=> ExpectedRelations # {}
        /\ \A key \in DOMAIN TheResource \cap {"attributes", "relationships", "links"} :
                DOMAIN TheResource[key] # {}
        /\ (/\ TheInstance = "ada"
            /\ self.default_fields = Given({"name", "type", "id"})
            /\ only = Given({"name", "id"}))
            => /\ Member(TheResource, "attributes") = [name |-> PyStr("Ada")]
               /\ "relationships" \notin DOMAIN TheResource

\* C15 witness: the per-call only selects id alone on an Author, and the
\* resource object has neither attributes nor relationships.
C15_Witness ==
    /\ SerializeOne /\ Returns
    /\ TheInstance = "ada"
    /\ only = Given({"id"})
    /\ DOMAIN TheResource = {"id", "type"}

\* the per-call only C16 expects for an item: the entry of the mapping for
\* the item's own type name, none when the mapping has no such entry
OwnEntry(o) ==
    LET _type == Api[get_model(o)].collection.name
    IN  IF _type \in DOMAIN only.map THEN Given(only.map[_type]) ELSE Absent

\* C16: in the document serialize_many returns, each resource object is the
\* one its item gives under the entry of the only mapping for the item's own
\* type name, and under no per-call only when there is no such entry; the
\* entries of other type names play no part.
C16_PerTypeOnly ==
    (SerializeMany /\ Returns /\ only.given) =>
        \A k \in DOMAIN instances :
            TheResource[k] =
                serialize(Api[get_model(instances[k])].serializer.obj,
                          instances[k], OwnEntry(instances[k])).value.data

\* C16 witness: an Author and an Article in one batch, with an entry for
\* each type name: the Author loses its name, the Article keeps its title.
C16_Witness ==
    /\ SerializeMany /\ Returns
    /\ instances = <<"ada", "a1">>
    /\ DOMAIN only.map = {"articles", "authors"}
    /\ "attributes" \notin DOMAIN TheResource[1]
    /\ DOMAIN TheResource[1].relationships = {"articles"}
    /\ DOMAIN TheResource[2].attributes = {"title"}

(***************************************************************************)
(* Calls as threads run them: statement by statement, on a call stack,     *)
(* with the objects that outlive a call or are reachable from several      *)
(* calls kept in `heap`: the serializer objects (the receiver, the module  *)
(* singleton, the registered ones), the `only` collection and the `only`   *)
(* mapping each caller passes, and the documents created so far.           *)
(***************************************************************************)
\* the interpreter's recursion limit, in nested serialize calls
MaxDepth == 4

\* the calls the first thread makes one after the other
MaxCalls == 2

\* the serializer objects, by name: a registered one is named by its model
SerializerObjects(receiver) ==
    [name \in {"receiver", "singleton"}
              \cup {m \in DOMAIN Api : Api[m].serializer.given} |->
        IF name = "receiver" THEN receiver
        ELSE IF name = "singleton" THEN singleton_serializer
        ELSE Api[name].serializer.obj]

\* what a local `only` refers to: None, the caller's collection, an entry of
\* the caller's mapping, or a set the call has made itself
NoneRef == [at |-> "none"]
ArgRef == [at |-> "arg"]
EntryRef(_type) == [at |-> "entry", type |-> _type]
LocalRef(names) == [at |-> "local", names |-> names]

deref(h, t, ref) ==
    IF ref.at = "none" THEN Absent
    ELSE IF ref.at = "arg" THEN Given(h.only[t])
    ELSE IF ref.at = "entry" THEN Given(h.only_map[t][ref.type])
    ELSE Given(ref.names)

\* the frame of a serialize call, at its first statement
DumpFrame(ser, instance, only_ref) ==
    [kind |-> "dump", ser |-> ser, instance |-> instance, only |-> only_ref,
     pc |-> "only", columns |-> <<>>, attributes |-> <<>>, pending |-> <<>>,
     fallback |-> FALSE, out |-> Pending]

\* the frame of a serialize_many call
ManyFrame(instances_) ==
    [kind |-> "many", instances |-> instances_, idx |-> 0,
     resources |-> <<>>, failed |-> <<>>, pc |-> "loop", out |-> Pending]

Finished(f, out) == [f EXCEPT !.pc = "finished", !.out = out]

\* JsonApiDocument(): a new dict on every call
new_document_shared(h) ==
    IF h.documents = <<>>
    THEN [heap |-> [h EXCEPT !.documents = <<JsonApiDocument>>], ref |-> 1]
    ELSE [heap |-> h, ref |-> 1]

new_document(h) ==
    [heap |-> [h EXCEPT !.documents = Append(@, JsonApiDocument)],
     ref |-> Len(h.documents) + 1]

\* result = JsonApiDocument(); result['data'] = data; return result
return_document(h, f, data) ==
    LET made == new_document(h)
    IN  [heap |-> [made.heap EXCEPT !.documents[made.ref].data = data],
         frame |-> Finished(f, Return(made.ref))]

\* `only |= set(['type', 'id'])` on the collection the caller passed
only_step_in_place(h, t, f) ==
    [heap |-> IF f.only.at = "arg"
              THEN [h EXCEPT !.only[t] = @ \cup {"type", "id"}]
              ELSE IF f.only.at = "entry"
              THEN [h EXCEPT !.only_map[t][f.only.type] = @ \cup {"type", "id"}]
              ELSE h,
     frame |-> [f EXCEPT !.pc = "columns"]]

\* _dump: `only = set(only) | set(['type', 'id'])` makes a new set
only_step(h, t, f) ==
    [heap |-> h,
     frame |-> [f EXCEPT !.only = IF f.only.at = "none" THEN NoneRef
                                  ELSE LocalRef(normalize_only(deref(h, t, f.only)).names),
                         !.pc = "columns"]]

\* _dump: inspect the model, then the columns and their filters
columns_step(ser, only_, f) ==
    IF ~is_mapped_class(get_model(f.instance))
    THEN Finished(f, SerializationException(f.instance,
                                            "failed to get columns for model"))
    ELSE [f EXCEPT !.pc = "read",
                   !.columns = selected_columns(ser, get_model(f.instance), only_)]

\* _dump: the attributes read, called and normalized; the keys whose value is
\* an instance of a mapped class wait for their serialization
read_step(f) ==
    IF \E k \in DOMAIN f.columns : ~hasattr(f.instance, f.columns[k])
    THEN Finished(f, Raise("AttributeError"))
    ELSE [f EXCEPT !.pc = "nested",
                   !.attributes = [c \in Range(f.columns) |->
                        plain_value(called_value(getattr(f.instance, c)))],
                   !.pending = SelectSeq(f.columns, LAMBDA c :
                        is_mapped_value(plain_value(called_value(
                            getattr(f.instance, c)))))]

\* _dump: serializer.serialize(val) for the next such key, or
\* simple_serialize(val) after a ValueError; the frames that replace f on
\* the stack.  At the recursion limit the call raises RecursionError.
nested_call(f, depth) ==
    LET val == f.attributes[Head(f.pending)]
    IN  IF depth >= MaxDepth
        THEN <<Finished(f, Raise("RecursionError"))>>
        ELSE IF ~f.fallback /\ ~Raised(serializer_for(get_model(val.ref)))
        THEN <<f, DumpFrame(get_model(val.ref), val.ref, NoneRef)>>
        ELSE <<[f EXCEPT !.fallback = TRUE],
               DumpFrame("singleton", val.ref, NoneRef)>>

\* _dump from `attributes.pop('id')` on, and serialize's document
build_step(h, ser, only_, f) ==
    Try(dump_resource(ser, f.instance, only_, f.attributes),
        LAMBDA resource : return_document(h, f, resource),
        LAMBDA e : [heap |-> h, frame |-> Finished(f, e)])

\* serialize_many: the loop body up to the call of serializer.serialize
many_lookup(h, t, f) ==
    LET instance == f.instances[f.idx + 1]
    IN  IF Raised(serializer_for(get_model(instance)))
        THEN <<[f EXCEPT !.idx = @ + 1,
                         !.failed = Append(@, SerializationException(instance,
                                        "Failed to find serializer class"))]>>
        ELSE IF Raised(collection_name(get_model(instance)))
        THEN <<[f EXCEPT !.idx = @ + 1,
                         !.failed = Append(@, SerializationException(instance,
                                        "Failed to find collection name"))]>>
        ELSE <<f, DumpFrame(get_model(instance), instance,
                    IF collection_name(get_model(instance)).value
                            \in DOMAIN h.only_map[t]
                    THEN EntryRef(collection_name(get_model(instance)).value)
                    ELSE NoneRef)>>

\* serialize_many after the loop
many_done(h, f) ==
    IF f.failed # <<>>
    THEN [heap |-> h, frame |-> Finished(f, MultipleExceptions(f.failed))]
    ELSE return_document(h, f, f.resources)

\* a finished call seen from the frame that made it
deliver(h, parent, out) ==
    IF parent.kind = "dump"
    THEN IF ~Raised(out)
         THEN [parent EXCEPT !.attributes[Head(parent.pending)] =
                                    h.documents[out.value].data,
                             !.pending = Tail(@),
                             !.fallback = FALSE]
         ELSE IF out.exc = "ValueError" /\ ~parent.fallback
         THEN [parent EXCEPT !.fallback = TRUE]
         ELSE Finished(parent, out)
    ELSE IF ~Raised(out)
         THEN [parent EXCEPT !.idx = @ + 1,
                             !.resources = Append(@, h.documents[out.value].data)]
         ELSE IF out.exc = "SerializationException"
         THEN [parent EXCEPT !.idx = @ + 1, !.failed = Append(@, out)]
         ELSE Finished(parent, out)

\* the calls of a thread's program
SerializeCall(instance, only_ref) ==
    [op |-> "serialize", instance |-> instance, only |-> only_ref]
SerializeManyCall(instances_) ==
    [op |-> "serialize_many", instances |-> instances_]

Thread(program) == [program |-> program, results |-> <<>>, stack |-> <<>>]

\* the names of the threads there can be
ThreadIds == {1, 2}

Top(t) == threads[t].stack[Len(threads[t].stack)]
Running(t, kind, at) ==
    /\ t \in DOMAIN threads
    /\ threads[t].stack # <<>>
    /\ Top(t).kind = kind
    /\ Top(t).pc = at

\* the stack of t with its top frame replaced by the frames fs
Replaced(t, fs) ==
    [threads EXCEPT ![t].stack =
        SubSeq(threads[t].stack, 1, Len(threads[t].stack) - 1) \o fs]

UnchangedCall ==
    UNCHANGED <<self, instances, only, pc, i, resources, failed, call, outcome>>

\* the thread makes the next call of its program on the receiver
StartCall(t) ==
    /\ t \in DOMAIN threads
    /\ threads[t].stack = <<>>
    /\ Len(threads[t].results) < Len(threads[t].program)
    /\ LET c == threads[t].program[Len(threads[t].results) + 1]
       IN  threads' = [threads EXCEPT ![t].stack =
                          IF c.op = "serialize"
                          THEN <<DumpFrame("receiver", c.instance, c.only)>>
                          ELSE <<ManyFrame(c.instances)>>]
    /\ UNCHANGED heap
    /\ UnchangedCall

\* serialize enters _dump, which normalizes `only`; the serialize of
\* raise_s_exception raises at once
NormalizeOnly(t) ==
    /\ Running(t, "dump", "only")
    /\ IF heap.serializers[Top(t).ser].cls = "raise_s_exception"
       THEN /\ threads' = Replaced(t,
                    <<Finished(Top(t), SerializationException(Top(t).instance, "None"))>>)
            /\ UNCHANGED heap
       ELSE /\ threads' = Replaced(t, <<only_step(heap, t, Top(t)).frame>>)
            /\ heap' = only_step(heap, t, Top(t)).heap
    /\ UnchangedCall

SelectColumns(t) ==
    /\ Running(t, "dump", "columns")
    /\ threads' = Replaced(t, <<columns_step(heap.serializers[Top(t).ser],
                                            deref(heap, t, Top(t).only), Top(t))>>)
    /\ UNCHANGED heap
    /\ UnchangedCall

ReadAttributes(t) ==
    /\ Running(t, "dump", "read")
    /\ threads' = Replaced(t, <<read_step(Top(t))>>)
    /\ UNCHANGED heap
    /\ UnchangedCall

SerializeNested(t) ==
    /\ Running(t, "dump", "nested")
    /\ Top(t).pending # <<>>
    /\ threads' = Replaced(t, nested_call(Top(t), Len(threads[t].stack)))
    /\ UNCHANGED heap
    /\ UnchangedCall

BuildResource(t) ==
    /\ Running(t, "dump", "nested")
    /\ Top(t).pending = <<>>
    /\ threads' = Replaced(t, <<build_step(heap, heap.serializers[Top(t).ser],
                                          deref(heap, t, Top(t).only), Top(t)).frame>>)
    /\ heap' = build_step(heap, heap.serializers[Top(t).ser],
                          deref(heap, t, Top(t).only), Top(t)).heap
    /\ UnchangedCall

ManyLookup(t) ==
    /\ Running(t, "many", "loop")
    /\ Top(t).idx < Len(Top(t).instances)
    /\ threads' = Replaced(t, many_lookup(heap, t, Top(t)))
    /\ UNCHANGED heap
    /\ UnchangedCall

ManyDone(t) ==
    /\ Running(t, "many", "loop")
    /\ Top(t).idx = Len(Top(t).instances)
    /\ threads' = Replaced(t, <<many_done(heap, Top(t)).frame>>)
    /\ heap' = many_done(heap, Top(t)).heap
    /\ UnchangedCall

\* a finished call returns or raises into the frame below it, or to the
\* thread when it was the thread's call
Deliver(t) ==
    /\ t \in DOMAIN threads
    /\ threads[t].stack # <<>>
    /\ Top(t).pc = "finished"
    /\ threads' =
        IF Len(threads[t].stack) = 1
        THEN [threads EXCEPT ![t].stack = <<>>,
                             ![t].results = Append(@, Top(t).out)]
        ELSE [threads EXCEPT ![t].stack =
                SubSeq(@, 1, Len(@) - 2)
                    \o <<deliver(heap, threads[t].stack[Len(threads[t].stack) - 1],
                                 Top(t).out)>>]
    /\ UNCHANGED heap
    /\ UnchangedCall

NextThreads ==
    \E t \in ThreadIds :
        \/ StartCall(t)
        \/ NormalizeOnly(t)
        \/ SelectColumns(t)
        \/ ReadAttributes(t)
        \/ SerializeNested(t)
        \/ BuildResource(t)
        \/ ManyLookup(t)
        \/ ManyDone(t)
        \/ Deliver(t)

\* the receivers, and what each thread calls them with: the instances of the
\* two threads are disjoint, also through the attributes that are instances
Receivers ==
    {singleton_serializer,
     DefaultSerializer(Given({"name", "owner"}), Absent, Absent),
     DefaultSerializer(Absent, Given({"name"}), Given(<<"extra">>))}

FirstCalls ==
    {SerializeCall("ada", ArgRef), SerializeCall("n1", NoneRef),
     SerializeManyCall(<<"a1", "ada", "t1">>)}

SecondCalls ==
    {SerializeCall("m1", NoneRef), SerializeCall("n3", ArgRef),
     SerializeManyCall(<<"d1", "a3", "m1">>)}

Programs(calls, n) == UNION {[1..k -> calls] : k \in 1..n}

\* the variables of the one-call specifications, which the threads leave
\* alone
NoCall ==
    /\ self = singleton_serializer
    /\ instances = <<>>
    /\ only = Absent
    /\ pc = "threads"
    /\ i = 0
    /\ resources = <<>>
    /\ failed = <<>>
    /\ call = [op |-> "threads"]
    /\ outcome = Pending

InitThreads ==
    /\ NoCall
    /\ \E receiver \in Receivers :
        heap \in {[serializers |-> SerializerObjects(receiver),
                   only |-> <<o1, {"owner", "name"}>>,
                   only_map |-> <<[authors |-> o1, articles |-> {"title"}],
                                  [members |-> {"name"}]>>,
                   documents |-> <<>>] :
                    o1 \in {{"name"}, {"self", "articles"}}}
    /\ threads \in {<<Thread(p1), Thread(p2)>> :
                        p1 \in Programs(FirstCalls, MaxCalls),
                        p2 \in Programs(SecondCalls, 1)}

SpecThreads == InitThreads /\ [][NextThreads]_vars

\* what a finished call gave its caller: the document, or the exception
ResultValue(out) ==
    IF Raised(out) THEN out ELSE Return(heap.documents[out.value])

\* C17: no step of a serialize or serialize_many call changes a serializer
\* object's default_fields, exclude or additional_attributes, nor the `only`
\* collection or the `only` mapping the caller passed; and a thread that
\* repeats a call gets an equal result.
C17_ConfigurationKept ==
    /\ [][/\ heap'.serializers = heap.serializers
          /\ heap'.only = heap.only
          /\ heap'.only_map = heap.only_map]_vars
    /\ [](\A t \in DOMAIN threads :
            \A j, k \in DOMAIN threads[t].results :
                threads[t].program[j] = threads[t].program[k] =>
                    ResultValue(threads[t].results[j])
                        = ResultValue(threads[t].results[k]))

\* C17 witness: a thread has called serialize twice on the same instance
\* with the same `only` collection, and both calls returned.
C17_Witness ==
    \E t \in DOMAIN threads :
        /\ Len(threads[t].results) = 2
        /\ threads[t].program[1] = threads[t].program[2]
        /\ threads[t].program[1] = SerializeCall("ada", ArgRef)
        /\ ~Raised(threads[t].results[1])
        /\ threads[t].results[1] # threads[t].results[2]

\* serialize_many run on its own: the exception that leaves the loop, the
\* aggregate of the failures, or the document of the resources
ManyAlone(instances_, only_map) ==
    LET bodies == [k \in DOMAIN instances_ |-> loop_body(instances_[k], only_map)]
        escaped == {k \in DOMAIN bodies : bodies[k].to = "raise"}
        failures == SelectSeq(bodies, LAMBDA b : b.to = "failed")
    IN  IF escaped # {}
        THEN bodies[CHOOSE k \in escaped : \A l \in escaped : k <= l].exception
        ELSE IF failures # <<>>
        THEN MultipleExceptions([k \in DOMAIN failures |-> failures[k].exception])
        ELSE Return([JsonApiDocument EXCEPT
                        !.data = [k \in DOMAIN bodies |-> bodies[k].resource]])

\* what the call c of thread t gives when nothing else runs
Alone(t, c) ==
    IF c.op = "serialize"
    THEN serialize(heap.serializers["receiver"], c.instance, deref(heap, t, c.only))
    ELSE ManyAlone(c.instances, [given |-> TRUE, map |-> heap.only_map[t]])

\* C18: whatever the interleaving of two threads that call the same
\* serializer object on disjoint instances, every call gives what it gives
\* when run alone, and no step writes to a serializer object or to a
\* document that exists already.
C18_ThreadSafe ==
    /\ [](\A t \in DOMAIN threads :
            \A j \in DOMAIN threads[t].results :
                ResultValue(threads[t].results[j])
                    = Alone(t, threads[t].program[j]))
    /\ [][/\ heap'.serializers = heap.serializers
          /\ \A d \in DOMAIN heap.documents :
                heap'.documents[d] = heap.documents[d]]_vars

\* C18 witness: both threads are inside a call at once, each past its first
\* statements, after a first call has returned its document.
C18_Witness ==
    /\ DOMAIN threads = {1, 2}
    /\ heap.documents # <<>>
    /\ \A t \in DOMAIN threads :
        /\ threads[t].stack # <<>>
        /\ Top(t).pc \in {"read", "nested"}
    /\ threads[1].results # <<>>

(***************************************************************************)
(* One thread, on object graphs with and without cycles.                   *)
(***************************************************************************)
NestedCalls ==
    {SerializeCall("g1", NoneRef), SerializeCall("g1", ArgRef),
     SerializeCall("g4", ArgRef), SerializeCall("n1", NoneRef),
     SerializeCall("n2", NoneRef), SerializeManyCall(<<"g2", "ada", "c1">>),
     SerializeManyCall(<<"g4", "c1">>)}

InitNested ==
    /\ NoCall
    /\ \E receiver \in Receivers :
        heap \in {[serializers |-> SerializerObjects(receiver),
                   only |-> <<o1>>,
                   only_map |-> <<[authors |-> o1]>>,
                   documents |-> <<>>] :
                    o1 \in {{"name"}, {"peer", "owner"}}}
    /\ threads \in {<<Thread(<<c>>)>> : c \in NestedCalls}

SpecNested == InitNested /\ [][NextThreads]_vars

\* the serialize activations on the stack of a thread
Activations(t) == SelectSeq(threads[t].stack, LAMBDA f : f.kind = "dump")

\* C19: the recursive serialization of attribute values ends on every object
\* graph, cyclic ones included: the serialization of an instance never
\* starts again inside itself, so the depth is bounded by the graph, and no
\* call is ended by the interpreter's recursion limit.
C19_RecursionEnds ==
    \A t \in DOMAIN threads :
        /\ \A j, k \in DOMAIN Activations(t) :
                j # k => Activations(t)[j].instance # Activations(t)[k].instance
        /\ \A j \in DOMAIN threads[t].results :
                Raised(threads[t].results[j]) =>
                    threads[t].results[j].exc # "RecursionError"

\* serialize_many: the instances iterated so far
Processed == SubSeq(instances, 1, i)

\* an instance that C20 expects in `failed`: no serializer is registered for
\* its model, or no collection name, or its serializer raises
Unserializable(o) ==
    \/ ~Api[get_model(o)].serializer.given
    \/ ~Api[get_model(o)].collection.given
    \/ only.given /\ Raised(serialize(Api[get_model(o)].serializer.obj, o,
                                      OwnEntry(o)))

\* C20: while serialize_many runs, the resource objects and the failures
\* collected so far are as many as the instances iterated; each iterated
\* instance is in exactly one of the two lists, both in input order; an
\* instance with no registered serializer is there once, as a serializer
\* failure, whether or not its collection name resolves.
C20_LoopInvariant ==
    SerializeMany =>
        LET bad == SelectSeq(Processed, Unserializable)
            good == SelectSeq(Processed, LAMBDA o : ~Unserializable(o))
        IN  /\ Len(resources) + Len(failed) = i
            /\ Len(failed) = Len(bad)
            /\ \A k \in DOMAIN failed :
                /\ failed[k].instance = bad[k]
                /\ ~Api[get_model(bad[k])].serializer.given =>
                        failed[k].message = "Failed to find serializer class"
            /\ Len(resources) = Len(good)
            /\ \A k \in DOMAIN resources :
                /\ resources[k].id = str(primary_key_value(good[k]))
                /\ resources[k].type = Api[get_model(good[k])].collection.name

\* C20 witness: in the middle of a batch, one instance is in each list; the
\* failed one has neither a serializer nor a collection name.
C20_Witness ==
    /\ SerializeMany /\ pc = "loop"
    /\ i = 2 /\ Len(instances) = 3
    /\ Len(resources) = 1 /\ Len(failed) = 1
    /\ failed[1].instance = "c1"
    /\ failed[1].message = "Failed to find serializer class"
    /\ Raised(collection_name(get_model("c1")))

\* what the serializer registered for the model of o gives for o, with the
\* entry of the `only` mapping for its type
ByRegistered(o) ==
    serialize(Api[get_model(o)].serializer.obj, o, OwnEntry(o))

\* o reaches the call of its serializer: both lookups succeed and the `only`
\* mapping is a dict
Encoded(o) ==
    /\ Api[get_model(o)].serializer.given
    /\ Api[get_model(o)].collection.given
    /\ only.given

\* C21: serialize_many encodes each instance with the serializer registered
\* for the instance's model and never with the receiver: what is collected,
\* recorded and returned or raised is what the registered serializers give,
\* whatever the receiver's only, exclude and additional_attributes, and an
\* instance whose registered serializer raises SerializationException is
\* recorded as a failure.
C21_ReceiverIgnored ==
    SerializeMany =>
        LET good == SelectSeq(Processed, LAMBDA o : ~Unserializable(o))
            bad == SelectSeq(Processed, Unserializable)
        IN  /\ resources = [k \in DOMAIN good |-> ByRegistered(good[k]).value.data]
            /\ Len(failed) = Len(bad)
            /\ \A k \in DOMAIN failed :
                    Encoded(bad[k]) => failed[k] = ByRegistered(bad[k])
            /\ pc = "done" =>
                \/ outcome = Return([JsonApiDocument EXCEPT !.data = resources])
                \/ outcome = MultipleExceptions(failed)
                \/ /\ i < Len(instances)
                   /\ IF Encoded(instances[i + 1])
                      THEN outcome = ByRegistered(instances[i + 1])
                      ELSE ~only.given /\ outcome = Raise("AttributeError")

\* C21 witness: a receiver with its own only, or exclude and
\* additional_attributes, was given an author, whose registered serializer
\* keeps what the receiver would drop, and a tag, whose registered serializer
\* raises SerializationException: the author is collected as its registered
\* serializer encodes it, the tag is recorded as a failure.
C21_Witness ==
    /\ SerializeMany /\ pc = "done"
    /\ self # singleton_serializer
    /\ instances = <<"ada", "t1">>
    /\ only.given
    /\ Len(resources) = 1 /\ resources[1] = ByRegistered("ada").value.data
    /\ resources[1] # serialize(self, "ada", OwnEntry("ada")).value.data
    /\ Len(failed) = 1 /\ failed[1].instance = "t1"
    /\ failed[1].exc = "SerializationException"
    /\ outcome = MultipleExceptions(failed)

====
